---- MODULE Spec2Model ----
(***************************************************************************)
(* mochi-plumber: resolution of a wildcard CXI address to one NIC.         *)
(*                                                                         *)
(* Several processes of one user on one node call                          *)
(* mochi_plumber_resolve_nic().  Everything up to the call of              *)
(* select_nic_roundrobin() touches only process-local data and the answers *)
(* of hwloc and libfabric, so it is one step (Resolve).  The round-robin   *)
(* arbiter works on the shared counter file, one system call per step:     *)
(* mkdir, open, flock, pread, pwrite, flock(LOCK_UN) and return.           *)
(***************************************************************************)
EXTENDS Integers, Sequences, FiniteSets, TLC

(* ------------------------------ bounds -------------------------------- *)
\* number of processes of the user on the node
NumProcs == 2
\* number of resolve calls made in one behaviour of concurrent calls
MaxCalls == 2
\* number of resolve calls made in one behaviour of calls made in turn
MaxSerialCalls == 6

Procs == 1 .. NumProcs
NoProc == 0

(* ------------------------------ strings ------------------------------- *)
\* C strings are sequences of characters
cxi == <<"c", "x", "i">>
ofi_cxi == <<"o", "f", "i", "+", "c", "x", "i">>
Digits == <<"0", "1", "2", "3", "4", "5", "6", "7", "8", "9">>

\* strncmp(s, prefix, strlen(prefix)) == 0
strncmp0(s, prefix) ==
    /\ Len(s) >= Len(prefix)
    /\ SubSeq(s, 1, Len(prefix)) = prefix

\* lines 48-49: the address names neither transport
UnknownTransport(in_address) ==
    ~ strncmp0(in_address, cxi) /\ ~ strncmp0(in_address, ofi_cxi)

\* a variant of AlreadySpecific: the test of lines 57-58 is left out
AlreadySpecificNever(in_address) == FALSE

\* lines 57-58: the address does not end with two slashes (strlen >= 3 here)
AlreadySpecific(in_address) ==
    \/ in_address[Len(in_address)] # "/"
    \/ in_address[Len(in_address) - 1] # "/"

\* lines 48-63: the address is returned as it came
PassThrough(in_address) ==
    UnknownTransport(in_address) \/ AlreadySpecific(in_address)

\* line 183: sprintf(*out_address, "%s%s", in_address, selected_nic)
Compose(in_address, selected_nic) == in_address \o selected_nic

\* the % of C on ints: the quotient truncates toward zero
CRem(a, n) == IF a >= 0 THEN a % n ELSE - ((- a) % n)

(* ----------------------- inputs of a resolve call --------------------- *)
Addresses ==
    { <<"c", "x", "i", ":", "/", "/">>,
      <<"o", "f", "i", "+", "c", "x", "i", ":", "/", "/">>,
      <<"c", "x", "i", ":", "/", "/", "c", "x", "i", "0">>,
      <<"t", "c", "p", ":", "/", "/">> }
BucketPolicies == {"all", "numa", "socket"}
NicPolicies == {"roundrobin", "random", "first"}

(* ------------------- answers of libfabric and hwloc ------------------- *)
\* cur->domain_attr->name of the i-th interface fi_getinfo() lists
NicName(i) == <<"c", "x", "i", Digits[i]>>

\* One interface of the list: whether it has PCI bus data (lines 121-122),
\* whether hwloc knows the device (line 126), and the first bit of the
\* nodeset of its non-I/O ancestor (line 146).
OnNode(n) == [bus |-> TRUE, found |-> TRUE, node |-> n]
NoBusData == [bus |-> FALSE, found |-> FALSE, node |-> 0]
NotInTopology == [bus |-> TRUE, found |-> FALSE, node |-> 0]

\* hwloc_bitmap_first() of an empty nodeset (lines 146, 214)
EmptyNodeset == -1

\* The machines the calls run on: the NUMA nodes (the complete nodeset of
\* line 79), the interfaces in enumeration order, and the values line 214
\* can give for the location of the calling thread: a node, or
\* EmptyNodeset where some processor belongs to no node.
Machines ==
    { [nodes |-> {0}, locs |-> {0}, nics |-> <<NoBusData, OnNode(0)>>],
      [nodes |-> {0}, locs |-> {0}, nics |-> <<OnNode(0), NotInTopology>>],
      [nodes |-> {0, 1}, locs |-> {0, 1},
       nics |-> <<OnNode(0), OnNode(0), OnNode(1)>>],
      [nodes |-> {0, 1}, locs |-> {0, 1},
       nics |-> <<OnNode(0), OnNode(1), OnNode(1)>>],
      [nodes |-> {0, 1}, locs |-> {0, 1}, nics |-> <<OnNode(0)>>],
      [nodes |-> {0, 2}, locs |-> {0, 2}, nics |-> <<OnNode(2)>>],
      [nodes |-> {0, 1}, locs |-> {0, 1, EmptyNodeset},
       nics |-> <<OnNode(0), OnNode(1)>>] }

(* -------------------- mochi_plumber_resolve_nic ----------------------- *)
\* *out_address before it is assigned
Unset == << >>

\* fi_getinfo() fails with -FI_ENODATA
FiGetinfoErrors == {-61}

\* what a call asks of the system before it selects: the hwloc topology
\* (lines 66-68), the libfabric interface list (line 108)
TopologyOnly == {"topology"}
TopologyAndFabric == {"topology", "fabric"}

\* a return of mochi_plumber_resolve_nic before select_nic_roundrobin():
\* the status, the address handed out, the bucket select_nic() drew from
\* (bucket_idx = -1: none was chosen), what was asked of the system and the
\* statement that returned.  loc is the location of the thread that line 214
\* found, if the call came to ask.  The topology is destroyed before every
\* return (lines 84, 90, 114, 134, 163, 173, 179).
Returned(ret, out_address, bucket_idx, bucket, queried, why) ==
    [kind |-> "return", ret |-> ret, out_address |-> out_address,
     bucket_idx |-> bucket_idx, bucket |-> bucket, queried |-> queried,
     why |-> why, loc |-> {}, held |-> {}]

\* buckets[bucket_idx] is outside the calloc'ed array (lines 149-152, 226):
\* the behaviour of the call is undefined from here on
OutOfBounds(bucket_idx) ==
    [kind |-> "ub", ret |-> 0, out_address |-> Unset,
     bucket_idx |-> bucket_idx, bucket |-> << >>,
     queried |-> TopologyAndFabric, why |-> "ub", loc |-> {},
     held |-> {"topology"}]

\* select_nic() calls select_nic_roundrobin() (line 232); the topology
\* handle is still held by the caller
CallsRoundRobin(bucket_idx, bucket) ==
    [kind |-> "roundrobin", ret |-> 0, out_address |-> Unset,
     bucket_idx |-> bucket_idx, bucket |-> bucket,
     queried |-> TopologyAndFabric, why |-> "roundrobin", loc |-> {},
     held |-> {"topology"}]

\* lines 70-86: the number of buckets, 0 for an unknown policy
NumBuckets(bucket_policy, m) ==
    IF bucket_policy = "all" THEN 1
    ELSE IF bucket_policy = "numa" THEN Cardinality(m.nodes)
    ELSE 0

\* lines 121-153: one turn of the loop, for the i-th interface, from the
\* buckets filled so far (nothing more happens once the loop was left)
AssignToBucket(m, nbuckets, sofar, i) ==
    IF sofar.status # "ok" \/ ~ m.nics[i].bus THEN sofar
    ELSE IF ~ m.nics[i].found
    THEN [status |-> "notfound", buckets |-> sofar.buckets, at |-> 0]
    ELSE LET bucket_idx == IF nbuckets = 1 THEN 0 ELSE m.nics[i].node IN
         IF bucket_idx \notin 0 .. (nbuckets - 1)
         THEN [status |-> "ub", buckets |-> sofar.buckets, at |-> bucket_idx]
         ELSE [status |-> "ok", at |-> 0,
               buckets |-> [sofar.buckets EXCEPT
                               ![bucket_idx] = Append(@, NicName(i))]]

\* lines 88, 119-154: calloc and the loop over the interfaces
BuildBuckets(m, nbuckets) ==
    LET after[i \in 0 .. Len(m.nics)] ==
            IF i = 0
            THEN [status |-> "ok", at |-> 0,
                  buckets |-> [b \in 0 .. (nbuckets - 1) |-> << >>]]
            ELSE AssignToBucket(m, nbuckets, after[i - 1], i)
    IN after[Len(m.nics)]

\* a variant of HasEmptyBucket: only the first bucket is looked at
HasEmptyBucketFirst(buckets) == Len(buckets[0]) < 1

\* lines 157-166: some bucket has no NIC
HasEmptyBucket(buckets) == \E i \in DOMAIN buckets : Len(buckets[i]) < 1

\* lines 296-307: rand() % num_nics, rand() being any value
select_nic_random(bucket_idx, bucket) ==
    { Returned(0, bucket[(r % Len(bucket)) + 1], bucket_idx, bucket,
               TopologyAndFabric, "random")
      : r \in 0 .. (2 * Len(bucket) - 1) }

\* a variant of SelectInBucket: the test of lines 226-229 is left out
SelectInBucketNoShortcut(nic_policy, bucket_idx, bucket) ==
    IF nic_policy = "roundrobin"
    THEN {CallsRoundRobin(bucket_idx, bucket)}
    ELSE IF nic_policy = "random"
    THEN select_nic_random(bucket_idx, bucket)
    ELSE {Returned(-1, Unset, bucket_idx, bucket, TopologyAndFabric,
                   "nic_policy")}

\* a variant of SelectInBucket: a policy that is not "random" is taken for
\* "roundrobin"
SelectInBucketAnyPolicy(nic_policy, bucket_idx, bucket) ==
    IF Len(bucket) = 1
    THEN {Returned(0, bucket[1], bucket_idx, bucket, TopologyAndFabric,
                   "single")}
    ELSE IF nic_policy = "random"
    THEN select_nic_random(bucket_idx, bucket)
    ELSE {CallsRoundRobin(bucket_idx, bucket)}

\* a variant of SelectInBucket: "random" is served by the round-robin
\* selection as well
SelectInBucketRandomShared(nic_policy, bucket_idx, bucket) ==
    IF Len(bucket) = 1
    THEN {Returned(0, bucket[1], bucket_idx, bucket, TopologyAndFabric,
                   "single")}
    ELSE IF nic_policy \in {"roundrobin", "random"}
    THEN {CallsRoundRobin(bucket_idx, bucket)}
    ELSE {Returned(-1, Unset, bucket_idx, bucket, TopologyAndFabric,
                   "nic_policy")}

\* lines 225-242: the choice inside the chosen bucket
SelectInBucket(nic_policy, bucket_idx, bucket) ==
    IF Len(bucket) = 1
    THEN {Returned(0, bucket[1], bucket_idx, bucket, TopologyAndFabric,
                   "single")}
    ELSE IF nic_policy = "roundrobin"
    THEN {CallsRoundRobin(bucket_idx, bucket)}
    ELSE IF nic_policy = "random"
    THEN select_nic_random(bucket_idx, bucket)
    ELSE {Returned(-1, Unset, bucket_idx, bucket, TopologyAndFabric,
                   "nic_policy")}

\* line 214: the call found the thread at last_numa
LocatedAt(last_numa, r) == [r EXCEPT !.loc = {last_numa}]

\* a variant of select_nic: the location found at line 214 is not used, the
\* first bucket is drawn from
select_nic_first_bucket(m, bucket_policy, nic_policy, nbuckets, buckets) ==
    IF nbuckets = 1
    THEN SelectInBucket(nic_policy, 0, buckets[0])
    ELSE IF bucket_policy = "numa"
    THEN {Returned(-1, Unset, -1, << >>, TopologyAndFabric, "cpu_location")}
         \cup UNION { { LocatedAt(last_numa, r)
                        : r \in SelectInBucket(nic_policy, 0, buckets[0]) }
                      : last_numa \in m.locs }
    ELSE {Returned(-1, Unset, -1, << >>, TopologyAndFabric, "bucket_policy")}

\* lines 188-243: select_nic() up to its return or its call of
\* select_nic_roundrobin().  The location of the thread is any the machine
\* can give, and hwloc_get_last_cpu_location() may fail.
select_nic(m, bucket_policy, nic_policy, nbuckets, buckets) ==
    IF nbuckets = 1
    THEN SelectInBucket(nic_policy, 0, buckets[0])
    ELSE IF bucket_policy = "numa"
    THEN {Returned(-1, Unset, -1, << >>, TopologyAndFabric, "cpu_location")}
         \cup UNION { IF last_numa \in 0 .. (nbuckets - 1)
                      THEN { LocatedAt(last_numa, r)
                             : r \in SelectInBucket(nic_policy, last_numa,
                                                    buckets[last_numa]) }
                      ELSE {LocatedAt(last_numa, OutOfBounds(last_numa))}
                      : last_numa \in m.locs }
    ELSE {Returned(-1, Unset, -1, << >>, TopologyAndFabric, "bucket_policy")}

\* lines 168-185: what resolve_nic does with a return of select_nic()
AfterSelect(in_address, r) ==
    IF r.kind # "return" THEN r
    ELSE IF r.ret < 0
    THEN [r EXCEPT !.ret = -1, !.out_address = Unset]
    ELSE [r EXCEPT !.ret = 0, !.out_address = Compose(in_address, @)]

\* lines 31-186: every way the call can go on machine m before it returns
\* or enters select_nic_roundrobin()
ResolveFront(in_address, bucket_policy, nic_policy, m) ==
    IF PassThrough(in_address)
    THEN {Returned(0, in_address, -1, << >>, {}, "passthrough")}
    ELSE IF NumBuckets(bucket_policy, m) = 0
    THEN {Returned(-1, Unset, -1, << >>, TopologyOnly, "bucket_policy")}
    ELSE LET nbuckets == NumBuckets(bucket_policy, m)
             built == BuildBuckets(m, nbuckets)
         IN \* line 89: calloc fails
            {Returned(-1, Unset, -1, << >>, TopologyOnly, "calloc")}
            \* line 110: fi_getinfo fails
            \cup { Returned(e, Unset, -1, << >>, TopologyAndFabric,
                            "fi_getinfo")
                   : e \in FiGetinfoErrors }
            \cup (IF built.status = "notfound"
                  THEN {Returned(-1, Unset, -1, << >>, TopologyAndFabric,
                                 "pci_dev")}
                  ELSE IF built.status = "ub"
                  THEN {OutOfBounds(built.at)}
                  ELSE IF HasEmptyBucket(built.buckets)
                  THEN {Returned(-1, Unset, -1, << >>, TopologyAndFabric,
                                 "empty_bucket")}
                  ELSE { AfterSelect(in_address, r)
                         : r \in select_nic(m, bucket_policy, nic_policy,
                                            nbuckets, built.buckets) })

\* the inputs of one call
Calls ==
    [in_address : Addresses, bucket_policy : BucketPolicies,
     nic_policy : NicPolicies]

\* every call on machine m, with every way it can go (lines 31-243)
FrontOutcomes(m) ==
    UNION { { [call |-> c, res |-> r]
              : r \in ResolveFront(c.in_address, c.bucket_policy,
                                   c.nic_policy, m) }
            : c \in Calls }

(* ------------------------------- state -------------------------------- *)
VARIABLES
    machine,     \* the node the processes run on
    pc,          \* where each process is in its call
    call,        \* the arguments of the call in progress
    bucket_idx,  \* select_nic_roundrobin: bucket_idx
    last_numa,   \* select_nic: where line 214 found the thread, if it asked
    bucket,      \* select_nic_roundrobin: bucket->nics (bucket->num_nics long)
    fd,          \* select_nic_roundrobin: fd
    nic_idx,     \* select_nic_roundrobin: nic_idx
    ret,         \* select_nic_roundrobin: the status it will return
    nfds,        \* descriptors each process has open
    topology,    \* whether each process holds a loaded hwloc topology
    dir,         \* /tmp/<login>-mochi-plumber exists
    file,        \* /tmp/<login>-mochi-plumber/<bucket_idx>
    lock,        \* the holder of the flock on each file
    ndisp,       \* history: how many indices were written to each file
    users,       \* history: the NIC counts of the calls that wrote each file
    ncalls,      \* history: calls started
    serial,      \* history: the calls are made one after another
    ev           \* history: what the last step did (a return, a write)

vars ==
    <<machine, pc, call, bucket_idx, last_numa, bucket, fd, nic_idx, ret, nfds, topology, dir,
      file, lock, ndisp, users, ncalls, serial, ev>>

\* one counter file per bucket index
FileIds == 0 .. 1

NoCall == [in_address |-> Unset, bucket_policy |-> "", nic_policy |-> ""]
AbsentFile == [exists |-> FALSE, size |-> 0, data |-> 0]

\* a variant of FileVal: nic_idx is initialised to 0
FileValZero(f) == IF f.size = 0 THEN 0 ELSE f.data

\* the value pread leaves in nic_idx, initialised to -1 (lines 249, 273)
FileVal(f) == IF f.size = 0 THEN -1 ELSE f.data

\* What a step did.  Of calls made in turn everything is kept: the arguments,
\* the status and address returned, the bucket drawn from, what was asked of
\* the system, the statement that returned, the location found.  Of
\* concurrent calls only the numbers are kept.
Event(kind, p, c, r, out, b, nics, queried, why, loc, prev, idx, turn, fail, held) ==
    [kind |-> kind, proc |-> p, ret |-> r, bucket_idx |-> b,
     num_nics |-> Len(nics), prev |-> prev, idx |-> idx, turn |-> turn,
     failed |-> fail, locked |-> held,
     call |-> IF serial THEN c ELSE [in_address |-> << >>, bucket_policy |-> "",
                                     nic_policy |-> ""],
     out_address |-> IF serial THEN out ELSE << >>,
     bucket |-> IF serial THEN nics ELSE << >>,
     queried |-> IF serial THEN queried ELSE {},
     why |-> IF serial THEN why ELSE "",
     loc |-> IF serial THEN loc ELSE {}]

NoEvent ==
    [kind |-> "none", proc |-> NoProc, ret |-> 0, bucket_idx |-> -1,
     num_nics |-> 0, prev |-> -1, idx |-> -1, turn |-> 0, failed |-> "none",
     locked |-> FALSE, call |-> NoCall, out_address |-> Unset, bucket |-> << >>,
     queried |-> {}, why |-> "", loc |-> {}]

Init ==
    /\ machine \in Machines
    /\ pc = [p \in Procs |-> "idle"]
    /\ call = [p \in Procs |-> NoCall]
    /\ bucket_idx = [p \in Procs |-> -1]
    /\ last_numa = [p \in Procs |-> {}]
    /\ bucket = [p \in Procs |-> << >>]
    /\ fd = [p \in Procs |-> -1]
    /\ nic_idx = [p \in Procs |-> -1]
    /\ ret = [p \in Procs |-> 0]
    /\ nfds = [p \in Procs |-> 0]
    /\ topology = [p \in Procs |-> FALSE]
    /\ dir = FALSE
    /\ file = [f \in FileIds |-> AbsentFile]
    /\ lock = [f \in FileIds |-> NoProc]
    /\ ndisp = [f \in FileIds |-> 0]
    /\ users = [f \in FileIds |-> {}]
    /\ ncalls = 0
    /\ serial = FALSE
    /\ ev = NoEvent

\* the same, the calls being made one after another, the processes taking
\* turns
InitSerial ==
    /\ machine \in Machines
    /\ pc = [p \in Procs |-> "idle"]
    /\ call = [p \in Procs |-> NoCall]
    /\ bucket_idx = [p \in Procs |-> -1]
    /\ last_numa = [p \in Procs |-> {}]
    /\ bucket = [p \in Procs |-> << >>]
    /\ fd = [p \in Procs |-> -1]
    /\ nic_idx = [p \in Procs |-> -1]
    /\ ret = [p \in Procs |-> 0]
    /\ nfds = [p \in Procs |-> 0]
    /\ topology = [p \in Procs |-> FALSE]
    /\ dir = FALSE
    /\ file = [f \in FileIds |-> AbsentFile]
    /\ lock = [f \in FileIds |-> NoProc]
    /\ ndisp = [f \in FileIds |-> 0]
    /\ users = [f \in FileIds |-> {}]
    /\ ncalls = 0
    /\ serial = TRUE
    /\ ev = NoEvent

\* the locals of select_nic_roundrobin are gone when the call has returned
Forget(p) ==
    /\ call' = [call EXCEPT ![p] = NoCall]
    /\ bucket_idx' = [bucket_idx EXCEPT ![p] = -1]
    /\ last_numa' = [last_numa EXCEPT ![p] = {}]
    /\ bucket' = [bucket EXCEPT ![p] = << >>]
    /\ fd' = [fd EXCEPT ![p] = -1]
    /\ nic_idx' = [nic_idx EXCEPT ![p] = -1]
    /\ ret' = [ret EXCEPT ![p] = 0]

(* ------------------------------ actions ------------------------------- *)
\* lines 31-243: a call of mochi_plumber_resolve_nic, up to its return or to
\* its entry into select_nic_roundrobin
Resolve(p) ==
    /\ pc[p] = "idle"
    /\ ncalls < (IF serial THEN MaxSerialCalls ELSE MaxCalls)
    /\ serial => \A q \in Procs : pc[q] \in {"idle", "ub"}
    /\ serial => p = (ncalls % NumProcs) + 1
    /\ \E o \in FrontOutcomes(machine) :
        /\ ncalls' = ncalls + 1
        /\ pc' = [pc EXCEPT ![p] =
                    CASE o.res.kind = "return" -> "idle"
                      [] o.res.kind = "ub" -> "ub"
                      [] OTHER -> "mkdir"]
        /\ topology' = [topology EXCEPT ![p] = "topology" \in o.res.held]
        /\ IF o.res.kind = "roundrobin"
           THEN /\ call' = [call EXCEPT ![p] = o.call]
                /\ bucket_idx' = [bucket_idx EXCEPT ![p] = o.res.bucket_idx]
                /\ last_numa' = [last_numa EXCEPT ![p] = o.res.loc]
                /\ bucket' = [bucket EXCEPT ![p] = o.res.bucket]
                /\ ev' = NoEvent
           ELSE /\ ev' = Event(o.res.kind, p, o.call, o.res.ret,
                               o.res.out_address, o.res.bucket_idx,
                               o.res.bucket, o.res.queried, o.res.why,
                               o.res.loc, -1, -1, 0, "none", FALSE)
                /\ UNCHANGED <<call, bucket_idx, last_numa, bucket>>
    /\ UNCHANGED <<machine, serial, fd, nic_idx, ret, nfds, dir, file, lock, ndisp, users>>

\* lines 168-185: select_nic_roundrobin has returned r to select_nic, which
\* returns it to mochi_plumber_resolve_nic; fd is not closed
ReturnFromRoundRobin(p, r, fail, held) ==
    /\ pc' = [pc EXCEPT ![p] = "idle"]
    /\ topology' = [topology EXCEPT ![p] = FALSE]
    /\ ev' = Event("return", p, call[p], (IF r < 0 THEN -1 ELSE 0),
                   (IF r < 0 THEN Unset
                    ELSE Compose(call[p].in_address, bucket[p][nic_idx[p] + 1])),
                   bucket_idx[p], bucket[p], TopologyAndFabric, "roundrobin",
                   last_numa[p], -1, nic_idx[p],
                   ndisp[bucket_idx[p]], fail, held)
    /\ Forget(p)

\* lines 251-257: mkdir, which may fail; EEXIST is no failure
Mkdir(p) ==
    /\ pc[p] = "mkdir"
    /\ \E ok \in BOOLEAN :
        IF ok
        THEN /\ dir' = TRUE
             /\ pc' = [pc EXCEPT ![p] = "open"]
             /\ ev' = NoEvent
             /\ UNCHANGED <<call, bucket_idx, last_numa, bucket, fd, nic_idx, ret, topology>>
        ELSE /\ ReturnFromRoundRobin(p, -1, "mkdir", FALSE)
             /\ UNCHANGED dir
    /\ UNCHANGED <<machine, serial, nfds, file, lock, ndisp, users, ncalls>>

\* lines 259-264: open(O_RDWR|O_CREAT|O_SYNC); a failure is reported and
\* the call goes on with fd = -1
Open(p) ==
    /\ pc[p] = "open"
    /\ \E ok \in BOOLEAN :
        IF ok
        THEN /\ file' = [file EXCEPT ![bucket_idx[p]].exists = TRUE]
             /\ fd' = [fd EXCEPT ![p] = 3 + nfds[p]]
             /\ nfds' = [nfds EXCEPT ![p] = @ + 1]
        ELSE /\ fd' = [fd EXCEPT ![p] = -1]
             /\ UNCHANGED <<file, nfds>>
    /\ pc' = [pc EXCEPT ![p] = "flock"]
    /\ ev' = NoEvent
    /\ UNCHANGED <<machine, serial, call, bucket_idx, last_numa, bucket, nic_idx, ret, topology,
                   dir, lock, ndisp, users, ncalls>>

\* line 267: flock(fd, LOCK_EX) waits until no other open file holds the
\* lock.  It fails on a bad descriptor (EBADF) and may fail on a good one
\* (EINTR, ENOLCK); its return value is not looked at.
Flock(p) ==
    /\ pc[p] = "flock"
    /\ \E granted \in BOOLEAN :
        IF granted
        THEN /\ fd[p] # -1
             /\ lock[bucket_idx[p]] = NoProc
             /\ lock' = [lock EXCEPT ![bucket_idx[p]] = p]
        ELSE UNCHANGED lock
    /\ pc' = [pc EXCEPT ![p] = "pread"]
    /\ ev' = NoEvent
    /\ UNCHANGED <<machine, serial, call, bucket_idx, last_numa, bucket, fd, nic_idx, ret, nfds,
                   topology, dir, file, ndisp, users, ncalls>>

\* a variant of NextNic: the index counts from 1
NextNicOneBased(idx, num_nics) == CRem(idx + 1, num_nics) + 1

\* a variant of NextNic: the remainder is not taken
NextNicNoWrap(idx, num_nics) == idx + 1

\* line 281: nic_idx = (nic_idx+1)%(bucket->num_nics)
NextNic(idx, num_nics) == CRem(idx + 1, num_nics)

\* lines 273-281: pread fails on a bad descriptor and may fail on a good
\* one; a read of an empty file returns 0 and leaves nic_idx at -1
Pread(p) ==
    /\ pc[p] = "pread"
    /\ \E ok \in BOOLEAN :
        IF ok
        THEN /\ fd[p] # -1
             /\ nic_idx' = [nic_idx EXCEPT ![p] =
                              NextNic(FileVal(file[bucket_idx[p]]), Len(bucket[p]))]
             /\ pc' = [pc EXCEPT ![p] = "pwrite"]
             /\ UNCHANGED ret
        ELSE /\ ret' = [ret EXCEPT ![p] = -1]
             /\ pc' = [pc EXCEPT ![p] = "unlock"]
             /\ UNCHANGED nic_idx
    /\ ev' = NoEvent
    /\ UNCHANGED <<machine, serial, call, bucket_idx, last_numa, bucket, fd, nfds, topology, dir,
                   file, lock, ndisp, users, ncalls>>

\* history: the first system call of p's selection that failed, seen from
\* the locals when select_nic_roundrobin is about to unlock
FirstFailure(p) ==
    IF fd[p] = -1 THEN "open"
    ELSE IF lock[bucket_idx[p]] # p THEN "flock"
    ELSE IF ret[p] = 0 THEN "none"
    ELSE IF nic_idx[p] = -1 THEN "pread"
    ELSE "pwrite"

\* a variant of Pwrite: the index is in the file when pwrite reports its
\* failure
PwriteThenFail(p) ==
    /\ pc[p] = "pwrite"
    /\ \E ok \in BOOLEAN :
        /\ file' = [file EXCEPT ![bucket_idx[p]] =
                      [exists |-> TRUE, size |-> 4, data |-> nic_idx[p]]]
        /\ IF ok
           THEN /\ ndisp' = [ndisp EXCEPT ![bucket_idx[p]] = @ + 1]
                /\ users' = [users EXCEPT ![bucket_idx[p]] =
                               @ \cup {Len(bucket[p])}]
                /\ ev' = Event("write", p, call[p], 0, Unset, bucket_idx[p],
                               bucket[p], TopologyAndFabric, "roundrobin",
                               last_numa[p], FileVal(file[bucket_idx[p]]),
                               nic_idx[p], ndisp[bucket_idx[p]] + 1,
                               FirstFailure(p), lock[bucket_idx[p]] = p)
                /\ UNCHANGED ret
           ELSE /\ ret' = [ret EXCEPT ![p] = -1]
                /\ ev' = NoEvent
                /\ UNCHANGED <<ndisp, users>>
    /\ pc' = [pc EXCEPT ![p] = "unlock"]
    /\ UNCHANGED <<machine, serial, call, bucket_idx, last_numa, bucket, fd, nic_idx, nfds,
                   topology, dir, lock, ncalls>>

\* lines 283-289: pwrite of nic_idx at offset 0, which may fail
Pwrite(p) ==
    /\ pc[p] = "pwrite"
    /\ \E ok \in BOOLEAN :
        IF ok
        THEN /\ file' = [file EXCEPT ![bucket_idx[p]] =
                           [exists |-> TRUE, size |-> 4, data |-> nic_idx[p]]]
             /\ ndisp' = [ndisp EXCEPT ![bucket_idx[p]] = @ + 1]
             /\ users' = [users EXCEPT ![bucket_idx[p]] =
                            @ \cup {Len(bucket[p])}]
             /\ ev' = Event("write", p, call[p], 0, Unset, bucket_idx[p],
                            bucket[p], TopologyAndFabric, "roundrobin",
                            last_numa[p], FileVal(file[bucket_idx[p]]),
                            nic_idx[p], ndisp[bucket_idx[p]] + 1,
                            FirstFailure(p), lock[bucket_idx[p]] = p)
             /\ UNCHANGED ret
        ELSE /\ ret' = [ret EXCEPT ![p] = -1]
             /\ ev' = NoEvent
             /\ UNCHANGED <<file, ndisp, users>>
    /\ pc' = [pc EXCEPT ![p] = "unlock"]
    /\ UNCHANGED <<machine, serial, call, bucket_idx, last_numa, bucket, fd, nic_idx, nfds,
                   topology, dir, lock, ncalls>>

\* a variant of Unlock: the flock(fd, LOCK_UN) of lines 277 and 287 is left
\* out, the lock is given back on the successful path only
UnlockAfterSuccess(p) ==
    /\ pc[p] = "unlock"
    /\ lock' = [lock EXCEPT ![bucket_idx[p]] =
                   IF @ = p /\ ret[p] = 0 THEN NoProc ELSE @]
    /\ ReturnFromRoundRobin(p, ret[p], FirstFailure(p), lock[bucket_idx[p]] = p)
    /\ UNCHANGED <<machine, serial, nfds, dir, file, ndisp, users, ncalls>>

\* lines 277-278, 287-288, 290-293: flock(fd, LOCK_UN) and the return
Unlock(p) ==
    /\ pc[p] = "unlock"
    /\ lock' = [lock EXCEPT ![bucket_idx[p]] = IF @ = p THEN NoProc ELSE @]
    /\ ReturnFromRoundRobin(p, ret[p], FirstFailure(p), lock[bucket_idx[p]] = p)
    /\ UNCHANGED <<machine, serial, nfds, dir, file, ndisp, users, ncalls>>

Next ==
    \E p \in Procs :
        \/ Resolve(p)
        \/ Mkdir(p)
        \/ Open(p)
        \/ Flock(p)
        \/ Pread(p)
        \/ Pwrite(p)
        \/ Unlock(p)

Spec == Init /\ [][Next]_vars

SpecSerial == InitSerial /\ [][Next]_vars

\* Concurrent calls under a fair scheduler and fair granting of locks: a
\* system call that does not wait returns (flock on a bad descriptor returns
\* EBADF at once), and a caller of flock(LOCK_EX) to whom the lock can be
\* granted again and again is granted it.  That flock fails on a good
\* descriptor is possible but never required.
SpecFair ==
    /\ Init
    /\ [][Next]_vars
    /\ \A p \in Procs :
         /\ WF_vars(Mkdir(p))
         /\ WF_vars(Open(p))
         /\ WF_vars(Flock(p) /\ fd[p] = -1)
         /\ SF_vars(Flock(p) /\ lock'[bucket_idx[p]] = p)
         /\ WF_vars(Pread(p))
         /\ WF_vars(Pwrite(p))
         /\ WF_vars(Unlock(p))

(* --------------------------- the properties --------------------------- *)
\* the terms of the statements
HasPrefix(s, prefix) ==
    Len(s) >= Len(prefix) /\ \A i \in 1 .. Len(prefix) : s[i] = prefix[i]
EndsUnresolved(s) ==
    Len(s) >= 2 /\ s[Len(s)] = "/" /\ s[Len(s) - 1] = "/"
SupportedUnresolved(s) ==
    (HasPrefix(s, cxi) \/ HasPrefix(s, ofi_cxi)) /\ EndsUnresolved(s)
Unrecognized(c) ==
    c.bucket_policy \notin {"all", "numa"}
        \/ c.nic_policy \notin {"roundrobin", "random"}
InRoundRobin(p) == pc[p] \in {"mkdir", "open", "flock", "pread", "pwrite", "unlock"}

\* C1: concurrent round-robin calls on one bucket with a stable NIC count
\* N >= 2 dispense a gap-free rotation: every index written to the counter
\* file is (the index dispensed before it + 1) mod N, the index dispensed
\* before it being what the file holds when the write is made (-1 when
\* nothing was dispensed yet).
C1_GapFreeRotation ==
    (ev.kind = "write" /\ ev.num_nics >= 2
        /\ users[ev.bucket_idx] = {ev.num_nics})
    => ev.idx = (ev.prev + 1) % ev.num_nics

\* C2: at most one call is between its pread and its pwrite of a given
\* counter file, and a call that has read the file holds the file's lock.
C2_MutualExclusion ==
    /\ \A p \in Procs : pc[p] = "pwrite" => lock[bucket_idx[p]] = p
    /\ \A p, q \in Procs :
         (p # q /\ pc[p] = "pwrite" /\ pc[q] = "pwrite")
         => bucket_idx[p] # bucket_idx[q]

\* C3: calls made one after another on a bucket of N >= 2 NICs whose counter
\* file was absent: the j-th call that dispenses returns the NIC at index
\* (j-1) mod N, appended to the address, and the file then holds that index;
\* the first call dispenses index 0.
C3_SequentialRotation ==
    (ev.kind = "return" /\ ev.ret = 0 /\ ev.call.nic_policy = "roundrobin"
        /\ ev.num_nics >= 2 /\ users[ev.bucket_idx] = {ev.num_nics})
    => LET expected == (ev.turn - 1) % ev.num_nics IN
       /\ ev.turn >= 1
       /\ ev.idx = expected
       /\ ev.out_address = ev.call.in_address \o ev.bucket[expected + 1]
       /\ file[ev.bucket_idx].exists
       /\ file[ev.bucket_idx].size > 0
       /\ file[ev.bucket_idx].data = expected

\* C3 happens: the fourth call in turn on a bucket of three NICs has
\* returned index 0 again
C3_Witness ==
    /\ ev.kind = "return" /\ ev.ret = 0 /\ ev.call.nic_policy = "roundrobin"
    /\ ev.num_nics = 3 /\ users[ev.bucket_idx] = {3}
    /\ ev.turn = 4 /\ ev.idx = 0

\* C4: a call that has returned from select_nic_roundrobin, with success or
\* with an error, holds no lock: a lock is only ever held by a call that is
\* between its flock and its return, on the file of its bucket.
C4_LockReleasedOnReturn ==
    /\ \A f \in FileIds :
         lock[f] # NoProc
         => (pc[lock[f]] \in {"pread", "pwrite", "unlock"}
                /\ bucket_idx[lock[f]] = f)
    /\ ev.kind = "return" => \A f \in FileIds : lock[f] # ev.proc

\* C4 happens: a call that held the lock has returned an error after its
\* pread or its pwrite failed
C4_Witness ==
    /\ ev.kind = "return" /\ ev.ret < 0 /\ ev.locked
    /\ ev.failed \in {"pread", "pwrite"}

\* C5: a process that is not inside a call holds no topology, no lock and no
\* open descriptor of a counter file.
C5_AllReleased ==
    \A p \in Procs :
        pc[p] = "idle"
        => (~ topology[p] /\ nfds[p] = 0 /\ \A f \in FileIds : lock[f] # p)

\* C6: a round-robin selection in which mkdir, open, flock, pread or pwrite
\* failed returns a failure, and writes nothing to the counter file after the
\* failed step.
C6_FailureAborts ==
    /\ ev.kind = "write" => ev.failed = "none"
    /\ (ev.kind = "return" /\ ev.failed # "none") => ev.ret < 0

\* C7: a call whose selected bucket has exactly one NIC returns that NIC
\* (success, the address followed by the NIC's name) under every nic policy,
\* its step leaves the scratch directory, the counter files and the locks as
\* they were, and no call is ever inside select_nic_roundrobin with a
\* one-NIC bucket.
C7_SingleNicShortcut ==
    [][ /\ (ev'.kind = "return" /\ Len(ev'.bucket) = 1)
           => /\ ev'.ret = 0
              /\ ev'.out_address = ev'.call.in_address \o ev'.bucket[1]
              /\ UNCHANGED <<dir, file, lock>>
        /\ \A p \in Procs : InRoundRobin(p)' => Len(bucket'[p]) # 1 ]_vars

\* C7 happens: a round-robin call under the numa policy drew from a one-NIC
\* bucket while the scratch directory existed, and the bucket has no file
C7_Witness ==
    /\ ev.kind = "return" /\ Len(ev.bucket) = 1 /\ ev.ret = 0
    /\ ev.call.nic_policy = "roundrobin" /\ ev.call.bucket_policy = "numa"
    /\ dir /\ ~ file[ev.bucket_idx].exists

\* C8: a call on a supported, unresolved address with an unrecognized bucket
\* policy or nic policy returns a failure, whatever the NICs.
C8_ConfigValidation ==
    (ev.kind = "return" /\ SupportedUnresolved(ev.call.in_address)
        /\ Unrecognized(ev.call))
    => ev.ret < 0

\* C9: a call with an unrecognized bucket policy or nic policy leaves the
\* scratch directory, the counter files and the locks as they were: its
\* step changes none of them, and no such call is ever inside
\* select_nic_roundrobin.
C9_InvalidPolicyTouchesNothing ==
    [][ /\ (ev'.kind \in {"return", "ub"} /\ Unrecognized(ev'.call))
           => UNCHANGED <<dir, file, lock>>
        /\ \A p \in Procs : InRoundRobin(p)' => ~ Unrecognized(call'[p]) ]_vars

\* C9 happens: a call with an unknown nic policy on a bucket of several NICs
\* has failed while a counter file existed
C9_Witness ==
    /\ ev.kind = "return" /\ SupportedUnresolved(ev.call.in_address)
    /\ ev.call.bucket_policy = "all" /\ ev.call.nic_policy = "first"
    /\ Len(ev.bucket) >= 2 /\ ev.ret < 0
    /\ dir /\ file[0].exists /\ file[0].size > 0

\* C10: a call on an address that does not start with "cxi" or "ofi+cxi", or
\* does not end with "//", returns success and the address itself under any
\* policies, asks nothing of hwloc or libfabric, changes no directory, file,
\* lock, descriptor or topology, and is never inside select_nic_roundrobin;
\* a call on the output of such a call returns that output again.
C10_PassThrough ==
    [][ /\ (ev'.kind \in {"return", "ub"}
               /\ ~ SupportedUnresolved(ev'.call.in_address))
           => /\ ev'.kind = "return"
              /\ ev'.ret = 0
              /\ ev'.out_address = ev'.call.in_address
              /\ ev'.queried = {}
              /\ UNCHANGED <<dir, file, lock, nfds, topology>>
        /\ (ev.kind = "return" /\ ~ SupportedUnresolved(ev.call.in_address)
               /\ ev'.kind = "return"
               /\ ev'.call.in_address = ev.out_address)
           => (ev'.ret = 0 /\ ev'.out_address = ev.out_address)
        /\ \A p \in Procs :
             InRoundRobin(p)' => SupportedUnresolved(call'[p].in_address) ]_vars

\* C10 happens: a resolved address was handed back under unknown policies,
\* for the second time in a row, while counter files existed
C10_Witness ==
    /\ ev.kind = "return" /\ ev.ret = 0
    /\ HasPrefix(ev.call.in_address, cxi)
    /\ ~ EndsUnresolved(ev.call.in_address)
    /\ ev.call.bucket_policy = "socket" /\ ev.call.nic_policy = "first"
    /\ ev.out_address = ev.call.in_address
    /\ dir /\ file[0].exists /\ ncalls >= 3

\* more terms of the statements: the buckets a partition of machine m under
\* a recognized bucket policy is to have, stated from the interface list
ExpectedCount(m, bucket_policy) ==
    IF bucket_policy = "all" THEN 1 ELSE Cardinality(m.nodes)
ExpectedNics(m, bucket_policy, i) ==
    LET upto[k \in 0 .. Len(m.nics)] ==
            IF k = 0 THEN << >>
            ELSE IF m.nics[k].bus /\ (bucket_policy = "all" \/ m.nics[k].node = i)
            THEN Append(upto[k - 1], NicName(k))
            ELSE upto[k - 1]
    IN upto[Len(m.nics)]
SomeBucketEmpty(m, bucket_policy) ==
    \E i \in 0 .. (ExpectedCount(m, bucket_policy) - 1) :
        ExpectedNics(m, bucket_policy, i) = << >>
\* the last event is the return of a call on an eligible address with a
\* recognized bucket policy
EligibleReturn ==
    /\ ev.kind = "return"
    /\ SupportedUnresolved(ev.call.in_address)
    /\ ev.call.bucket_policy \in {"all", "numa"}
\* that call had its buckets filled and checked (lines 119-166)
Partitioned ==
    ev.why \notin {"passthrough", "bucket_policy", "calloc", "fi_getinfo", "pci_dev"}

\* C11 as stated: a resolution whose buckets were filled fails if and only
\* if some bucket has no NIC.
C11_FailsIffEmptyBucket ==
    (EligibleReturn /\ Partitioned)
    => (ev.ret < 0 <=> SomeBucketEmpty(machine, ev.call.bucket_policy))

\* C11 amended: a resolution on a machine where some bucket gets no NIC
\* fails, whichever bucket the caller would draw from, and the check of
\* lines 157-166 is what fails once the buckets were filled; a resolution
\* whose buckets all have a NIC fails only when the location of the thread
\* cannot be found, when the nic policy is unknown, or when a system call
\* of the round-robin selection fails.
C11_EmptyBucketFails ==
    /\ (EligibleReturn /\ SomeBucketEmpty(machine, ev.call.bucket_policy))
       => ev.ret < 0
    /\ (EligibleReturn /\ Partitioned
           /\ SomeBucketEmpty(machine, ev.call.bucket_policy))
       => (ev.why = "empty_bucket" /\ ev.bucket_idx = -1)
    /\ (EligibleReturn /\ Partitioned /\ ev.ret < 0
           /\ ~ SomeBucketEmpty(machine, ev.call.bucket_policy))
       => \/ ev.why = "cpu_location"
          \/ ev.why = "nic_policy" /\ ev.call.nic_policy \notin {"roundrobin", "random"}
          \/ ev.why = "roundrobin" /\ ev.failed # "none"

\* C11 happens: under the numa policy a call has failed at the check
\* because the second bucket is empty, the first one having a NIC
C11_Witness ==
    /\ EligibleReturn /\ ev.call.bucket_policy = "numa"
    /\ ev.ret < 0 /\ ev.why = "empty_bucket"
    /\ ExpectedNics(machine, "numa", 0) # << >>
    /\ ExpectedNics(machine, "numa", 1) = << >>

\* the last event ends a call on an eligible address with a recognized
\* bucket policy whose loop over the interfaces (lines 120-154) was run
\* through
LoopRan ==
    /\ ev.kind \in {"return", "ub"}
    /\ SupportedUnresolved(ev.call.in_address)
    /\ ev.call.bucket_policy \in {"all", "numa"}
    /\ Partitioned
\* where a NIC name stands in a family of buckets
PlacesOf(name, buckets) ==
    { <<i, j>> \in UNION { {i} \X DOMAIN buckets[i] : i \in DOMAIN buckets }
        : buckets[i][j] = name }

\* C12: the loop forms one bucket under "all" and one bucket per NUMA node
\* under "numa"; every interface with PCI bus data stands in exactly one
\* bucket, once, in enumeration order, under "numa" in the bucket whose
\* index is the node of its PCI device; an interface without bus data
\* stands in none.
C12_BucketCompleteness ==
    LoopRan
    => LET bp == ev.call.bucket_policy
           built == BuildBuckets(machine, NumBuckets(bp, machine))
       IN /\ built.status = "ok"
          /\ DOMAIN built.buckets = 0 .. (ExpectedCount(machine, bp) - 1)
          /\ \A i \in DOMAIN built.buckets :
               built.buckets[i] = ExpectedNics(machine, bp, i)
          /\ \A k \in 1 .. Len(machine.nics) :
               LET places == PlacesOf(NicName(k), built.buckets) IN
               IF machine.nics[k].bus
               THEN /\ Cardinality(places) = 1
                    /\ bp = "numa"
                       => \A pl \in places : pl[1] = machine.nics[k].node
               ELSE places = {}

\* C13: a successful resolution of an eligible address hands out the address
\* followed by the name of one NIC of the bucket drawn from; that bucket is
\* bucket 0 of the partition under "all", and under "numa" the bucket of the
\* partition whose index is the location of the thread found in this call
\* (or the only location there is, on a machine of one node).
C13_OutputFromChosenBucket ==
    (ev.kind = "return" /\ SupportedUnresolved(ev.call.in_address) /\ ev.ret = 0)
    => LET bp == ev.call.bucket_policy IN
       /\ bp \in {"all", "numa"}
       /\ bp = "all" => (ev.bucket_idx = 0 /\ ev.loc = {})
       /\ bp = "numa"
          => \/ ev.loc = {ev.bucket_idx}
             \/ ev.loc = {} /\ machine.locs = {ev.bucket_idx}
       /\ ev.bucket_idx \in 0 .. (ExpectedCount(machine, bp) - 1)
       /\ ev.bucket = ExpectedNics(machine, bp, ev.bucket_idx)
       /\ \E i \in 1 .. Len(ev.bucket) :
            ev.out_address = ev.call.in_address \o ev.bucket[i]

\* C13 happens: a numa call found the thread on node 1 and was given the NIC
\* of bucket 1, after an earlier numa call had drawn from the two NICs of
\* bucket 0
C13_Witness ==
    /\ ev.kind = "return" /\ SupportedUnresolved(ev.call.in_address)
    /\ ev.ret = 0 /\ ev.call.bucket_policy = "numa"
    /\ ev.loc = {1} /\ ev.bucket_idx = 1
    /\ ev.out_address = ev.call.in_address \o ev.bucket[1]
    /\ 2 \in users[0]

C15_LockLiveness ==
    /\ \A p \in Procs : (pc[p] = "flock") ~> (pc[p] = "idle")
    /\ [][ \A p \in Procs :
             (pc[p] = "flock" /\ fd[p] # -1
                 /\ lock[bucket_idx[p]] \notin {NoProc, p})
             => pc'[p] = "flock" ]_vars

\* the last event is the end of a random selection in a bucket of two or
\* more NICs
RandomReturn(e) ==
    /\ e.kind = "return"
    /\ SupportedUnresolved(e.call.in_address)
    /\ e.call.bucket_policy \in {"all", "numa"}
    /\ e.call.nic_policy = "random"
    /\ Len(e.bucket) >= 2

\* C16: a random selection in a bucket of N >= 2 NICs succeeds with the NIC
\* at an index in 0 .. N-1 of that bucket, its step leaves the scratch
\* directory, the counter files, the locks and the open descriptors as
\* they were, and a call with the random policy is never inside
\* select_nic_roundrobin.
C16_RandomUsesNoSharedState ==
    [][ /\ RandomReturn(ev')
           => /\ ev'.ret = 0
              /\ \E i \in 0 .. (Len(ev'.bucket) - 1) :
                   ev'.out_address = ev'.call.in_address \o ev'.bucket[i + 1]
              /\ UNCHANGED <<dir, file, lock, nfds>>
        /\ \A p \in Procs :
             InRoundRobin(p)' => call'[p].nic_policy # "random" ]_vars

\* C16 happens: a random selection has handed out the last of three NICs
\* while the counter of that bucket stood at index 0
C16_Witness ==
    /\ RandomReturn(ev) /\ ev.ret = 0 /\ Len(ev.bucket) = 3
    /\ ev.out_address = ev.call.in_address \o ev.bucket[3]
    /\ file[ev.bucket_idx].size > 0 /\ FileVal(file[ev.bucket_idx]) = 0

\* C17: concurrent first round-robin calls on one bucket of N >= 2 NICs,
\* the scratch directory and the counter file absent at the start: no call
\* fails without one of its own system calls having failed (finding the
\* directory or the file already created is no failure), and the k-th index
\* written to the counter file is (k-1) mod N, as if the calls had been made
\* one after another.
C17_BenignCreationRace ==
    /\ [][ \A p \in Procs :
             (InRoundRobin(p) /\ pc'[p] = "idle" /\ ev'.ret < 0)
             => ev'.failed # "none" ]_vars
    /\ [] ( (ev.kind = "write" /\ ev.num_nics >= 2
                /\ users[ev.bucket_idx] = {ev.num_nics})
            => ev.idx = (ev.turn - 1) % ev.num_nics )

\* C18: every index used to address the bucket array lies in
\* 0 .. nbuckets-1, in the loop that fills the buckets and in the choice of
\* the bucket to draw from, whatever the topology answers: no call reads or
\* writes buckets[bucket_idx] outside the array.
C18_BucketIndexInBounds ==
    /\ ev.kind # "ub"
    /\ \A p \in Procs : pc[p] # "ub"

\* C19: the counter file of a bucket index is shared by calls whose buckets
\* have different NIC counts ("all" and "numa" both use file 0).  Whatever
\* value such a file holds, a round-robin call on it computes, writes and
\* returns an index in 0 .. N-1 for the N of its own bucket, and the NIC it
\* returns is the one at that index of its own bucket.
C19_MixedCountsInRange ==
    /\ \A p \in Procs :
         (pc[p] = "pwrite" \/ (pc[p] = "unlock" /\ ret[p] = 0))
         => nic_idx[p] \in 0 .. (Len(bucket[p]) - 1)
    /\ ev.kind = "write" => ev.idx \in 0 .. (ev.num_nics - 1)
    /\ (ev.kind = "return" /\ ev.why = "roundrobin" /\ ev.ret = 0)
       => /\ ev.idx \in 0 .. (Len(ev.bucket) - 1)
          /\ ev.out_address = ev.call.in_address \o ev.bucket[ev.idx + 1]

\* C19 happens: a call whose bucket has two NICs found the index 2, written
\* by a call whose bucket has three, in the shared file and wrote 1
C19_Witness ==
    /\ ev.kind = "write" /\ ev.num_nics = 2 /\ ev.prev = 2 /\ ev.idx = 1
    /\ users[ev.bucket_idx] = {2, 3}

\* C20: of calls made one after another, the value of a counter changes only
\* in the step that writes an index v to it, that step changes no other
\* counter, and the call that made it returns success next, with the
\* address naming the NIC at index v of its bucket; a call that returns
\* failure has written no counter, and its return changes none.
C20_AdvanceIffDispensed ==
    [][ /\ \A f \in FileIds :
             FileVal(file'[f]) # FileVal(file[f])
             => /\ ev'.kind = "write" /\ ev'.bucket_idx = f
                /\ FileVal(file'[f]) = ev'.idx
        /\ ev.kind = "write"
           => /\ ev'.kind = "return" /\ ev'.proc = ev.proc /\ ev'.ret = 0
              /\ ev'.idx = ev.idx
              /\ ev'.out_address
                    = ev'.call.in_address \o ev'.bucket[ev.idx + 1]
              /\ \A f \in FileIds : FileVal(file'[f]) = FileVal(file[f])
        /\ (ev'.kind = "return" /\ ev'.ret < 0)
           => /\ ev.kind # "write"
              /\ \A f \in FileIds : FileVal(file'[f]) = FileVal(file[f]) ]_vars

\* C20 happens: a call on a bucket of three NICs whose counter stood at 0
\* came to index 1, failed in pwrite and returned failure, the counter still
\* at 0
C20_Witness ==
    /\ ev.kind = "return" /\ ev.ret < 0 /\ ev.failed = "pwrite"
    /\ ev.num_nics = 3 /\ ev.idx = 1
    /\ file[ev.bucket_idx].size > 0 /\ FileVal(file[ev.bucket_idx]) = 0
====
